---- MODULE Spec2Model ----
(***************************************************************************)
(* Startup sequence of the voice assistant backend (app/backend/app.py):   *)
(* create_app reads the process environment, resolves one credential per   *)
(* downstream service, builds the realtime session manager, attaches the   *)
(* retrieval tools, registers the routes and returns the application,      *)
(* which the entry point hands to web.run_app.                             *)
(*                                                                         *)
(* Python values are records tagged by "kind": None, str, and the three    *)
(* credential classes.  os.environ is a function from the names that are   *)
(* set to their string values; a name outside its DOMAIN is unset.         *)
(***************************************************************************)
EXTENDS Integers, Sequences, FiniteSets, TLC

VARIABLES
    pc,                 \* position of create_app / the entry point
    environ,            \* os.environ
    dotenv_loaded,      \* whether load_dotenv() has run
    llm_key,            \* local of create_app
    search_key,         \* local of create_app
    credential,         \* local of create_app
    llm_credential,     \* local of create_app
    search_credential,  \* local of create_app
    app,                \* local of create_app: the web.Application
    rtmt,               \* local of create_app: the RTMiddleTier
    rag,                \* keyword arguments attach_rag_tools was called with
    heap,               \* credential objects constructed so far, in order
    calls,              \* calls made so far to the libraries, in order
    error,              \* exception that ended create_app, if any
    server              \* what web.run_app serves, once it does

vars == <<pc, environ, dotenv_loaded, llm_key, search_key, credential,
          llm_credential, search_credential, app, rtmt, rag, heap, calls,
          error, server>>

----------------------------------------------------------------------------
(* Bounds of the explored environments. *)

\* how many of the optional settings (voice, search endpoint/index/fields,
\* vector flag) are set at once, in the process environment and the .env
\* file together
MaxOptSet == 1

----------------------------------------------------------------------------
(* Names of the environment variables create_app consumes. *)

RUNNING_IN_PRODUCTION == "RUNNING_IN_PRODUCTION"
AZURE_OPENAI_API_KEY == "AZURE_OPENAI_API_KEY"
AZURE_SEARCH_API_KEY == "AZURE_SEARCH_API_KEY"
AZURE_TENANT_ID == "AZURE_TENANT_ID"
AZURE_OPENAI_ENDPOINT == "AZURE_OPENAI_ENDPOINT"
AZURE_OPENAI_REALTIME_DEPLOYMENT == "AZURE_OPENAI_REALTIME_DEPLOYMENT"
AZURE_OPENAI_REALTIME_VOICE_CHOICE == "AZURE_OPENAI_REALTIME_VOICE_CHOICE"
AZURE_SEARCH_ENDPOINT == "AZURE_SEARCH_ENDPOINT"
AZURE_SEARCH_INDEX == "AZURE_SEARCH_INDEX"
AZURE_SEARCH_SEMANTIC_CONFIGURATION == "AZURE_SEARCH_SEMANTIC_CONFIGURATION"
AZURE_SEARCH_IDENTIFIER_FIELD == "AZURE_SEARCH_IDENTIFIER_FIELD"
AZURE_SEARCH_CONTENT_FIELD == "AZURE_SEARCH_CONTENT_FIELD"
AZURE_SEARCH_EMBEDDING_FIELD == "AZURE_SEARCH_EMBEDDING_FIELD"
AZURE_SEARCH_TITLE_FIELD == "AZURE_SEARCH_TITLE_FIELD"
AZURE_SEARCH_USE_VECTOR_QUERY == "AZURE_SEARCH_USE_VECTOR_QUERY"

\* settings that decide the credentials and whether .env is loaded
CredentialVars ==
    {RUNNING_IN_PRODUCTION, AZURE_OPENAI_API_KEY, AZURE_SEARCH_API_KEY,
     AZURE_TENANT_ID}

\* settings read with os.environ[...]
RequiredVars == {AZURE_OPENAI_ENDPOINT, AZURE_OPENAI_REALTIME_DEPLOYMENT}

\* settings read with a default
OptionalVars ==
    {AZURE_OPENAI_REALTIME_VOICE_CHOICE, AZURE_SEARCH_ENDPOINT,
     AZURE_SEARCH_INDEX, AZURE_SEARCH_SEMANTIC_CONFIGURATION,
     AZURE_SEARCH_IDENTIFIER_FIELD, AZURE_SEARCH_CONTENT_FIELD,
     AZURE_SEARCH_EMBEDDING_FIELD, AZURE_SEARCH_TITLE_FIELD,
     AZURE_SEARCH_USE_VECTOR_QUERY}

EnvVars == CredentialVars \cup RequiredVars \cup OptionalVars

\* the string values a variable takes in the explored environments: the
\* empty string, and values that differ from every default and from each
\* other across the two API keys
Values(k) ==
    CASE k = RUNNING_IN_PRODUCTION -> {"", "1"}
      [] k = AZURE_OPENAI_API_KEY -> {"", "llm-secret"}
      [] k = AZURE_SEARCH_API_KEY -> {"", "search-secret"}
      [] k = AZURE_TENANT_ID -> {"", "tenant-a"}
      [] k = AZURE_OPENAI_ENDPOINT -> {"", "https://aoai.example"}
      [] k = AZURE_OPENAI_REALTIME_DEPLOYMENT -> {"", "gpt-realtime"}
      [] k = AZURE_OPENAI_REALTIME_VOICE_CHOICE -> {"", "echo"}
      [] k = AZURE_SEARCH_ENDPOINT -> {"", "https://search.example"}
      [] k = AZURE_SEARCH_INDEX -> {"", "homes"}
      [] k = AZURE_SEARCH_SEMANTIC_CONFIGURATION -> {"", "semantic"}
      [] k = AZURE_SEARCH_IDENTIFIER_FIELD -> {"", "id"}
      [] k = AZURE_SEARCH_CONTENT_FIELD -> {"", "content"}
      [] k = AZURE_SEARCH_EMBEDDING_FIELD -> {"", "embedding"}
      [] k = AZURE_SEARCH_TITLE_FIELD -> {"", "name"}
      [] k = AZURE_SEARCH_USE_VECTOR_QUERY -> {"", "true", "True", "false"}

\* the environment in which nothing is set
EmptyEnv == [k \in {} |-> ""]

\* every mapping of the names in S to one of their values
RECURSIVE Settings(_)
Settings(S) ==
    IF S = {} THEN {EmptyEnv}
    ELSE LET k == CHOOSE x \in S : TRUE
         IN  {f @@ (k :> v) : f \in Settings(S \ {k}), v \in Values(k)}

\* the sets of names set in the process environments explored: any of the
\* credential and required variables, and at most MaxOptSet optional ones
EnvironmentDomains ==
    {T \in SUBSET EnvVars : Cardinality(T \cap OptionalVars) <= MaxOptSet}

\* the .env files explored: no file (or an empty one), or a single entry
DotenvFiles ==
    {EmptyEnv} \cup UNION {{k :> v : v \in Values(k)} : k \in EnvVars}

\* the .env files explored with the process environment env
DotenvFilesFor(env) ==
    {file \in DotenvFiles :
        Cardinality((DOMAIN env \cup DOMAIN file) \cap OptionalVars)
            <= MaxOptSet}

----------------------------------------------------------------------------
(* Python values. *)

None == [kind |-> "None"]

\* a local name not yet assigned
Unbound == [kind |-> "unbound"]

Str(s) == [kind |-> "str", s |-> s]

ProcessTimeout == 60

Port == 8765

Host == "localhost"

\* first sentence of the prompt literal; the rest of the literal is text
\* that no operation inspects
SystemMessage ==
    "Eres Marta, una asistente virtual que trabaja en Twin Peaks Capital."

AzureKeyCredential(key, id) ==
    [kind |-> "AzureKeyCredential", key |-> key.s, id |-> id]

AzureDeveloperCliCredential(tenant_id, process_timeout, id) ==
    [kind |-> "AzureDeveloperCliCredential", tenant_id |-> tenant_id.s,
     process_timeout |-> process_timeout, id |-> id]

DefaultAzureCredential(id) ==
    [kind |-> "DefaultAzureCredential", id |-> id]

\* bool(v) for the values create_app tests
\* faulty variant of Truthy: the empty string counts as true
TruthyNotNone(v) == v.kind # "None"

Truthy(v) ==
    CASE v.kind = "None" -> FALSE
      [] v.kind = "str" -> v.s # ""
      [] OTHER -> TRUE

\* a or b
\* faulty variant of Or: only None falls through to the default
OrLeftUnlessNone(a, b) == IF a.kind # "None" THEN a ELSE b

Or(a, b) == IF Truthy(a) THEN a ELSE b

\* os.environ.get(k)
EnvironGet(env, k) == IF k \in DOMAIN env THEN Str(env[k]) ELSE None

\* os.getenv(k, default)
Getenv(env, k, default) ==
    IF k \in DOMAIN env THEN Str(env[k]) ELSE Str(default)

\* os.environ[k]: the value, or KeyError
\* faulty variant of EnvironItem: a missing name yields None, no KeyError
EnvironItemOrNone(env, k) ==
    [ok |-> TRUE, v |-> IF k \in DOMAIN env THEN Str(env[k]) ELSE None]

EnvironItem(env, k) ==
    IF k \in DOMAIN env
    THEN [ok |-> TRUE, v |-> Str(env[k])]
    ELSE [ok |-> FALSE, v |-> None]

\* load_dotenv(): entries of the file are added for the names not yet set
MergeDotenv(env, file) ==
    [k \in DOMAIN env \cup DOMAIN file |->
        IF k \in DOMAIN env THEN env[k] ELSE file[k]]

Call(fn, arg) == [fn |-> fn, arg |-> arg]

----------------------------------------------------------------------------
(* Decisions of create_app. *)

\* line 17: development mode, the .env file is loaded
\* faulty variant of ShouldLoadDotenv: an empty value counts as production
ShouldLoadDotenvUnsetOnly(env) == RUNNING_IN_PRODUCTION \notin DOMAIN env

ShouldLoadDotenv(env) == ~Truthy(EnvironGet(env, RUNNING_IN_PRODUCTION))

\* line 25: a fallback identity credential is needed
\* faulty variant of NeedsFallback: the identity credential is always built
NeedsFallbackAlways(llm, search) == TRUE

\* faulty variant of NeedsFallback: `and` in place of `or`
NeedsFallbackBoth(llm, search) == ~Truthy(llm) /\ ~Truthy(search)

NeedsFallback(llm, search) == ~Truthy(llm) \/ ~Truthy(search)

\* lines 26-31: the fallback identity credential
\* faulty variant of FallbackCredential: the tenant id is ignored
FallbackAmbientOnly(tenant_id, id) == DefaultAzureCredential(id)

\* faulty variant of FallbackCredential: an empty tenant id is used
FallbackTenantIfSet(tenant_id, id) ==
    IF tenant_id.kind = "str"
    THEN AzureDeveloperCliCredential(tenant_id, ProcessTimeout, id)
    ELSE DefaultAzureCredential(id)

FallbackCredential(tenant_id, id) ==
    IF Truthy(tenant_id)
    THEN AzureDeveloperCliCredential(tenant_id, ProcessTimeout, id)
    ELSE DefaultAzureCredential(id)

\* lines 32-33: AzureKeyCredential(key) if key else credential
\* faulty variant of ServiceCredential: a fallback instance per service
ServiceCredentialFresh(key, fallback, id) ==
    IF Truthy(key) THEN AzureKeyCredential(key, id)
    ELSE IF fallback.kind = "None" THEN fallback
    ELSE [fallback EXCEPT !.id = id]

ServiceCredential(key, fallback, id) ==
    IF Truthy(key) THEN AzureKeyCredential(key, id) ELSE fallback

\* line 96: os.getenv("AZURE_SEARCH_USE_VECTOR_QUERY", "true") == "true"
\* faulty variant of UseVectorQuery: any non-empty value enables it
UseVectorQueryTruthy(env) ==
    Truthy(Getenv(env, AZURE_SEARCH_USE_VECTOR_QUERY, "true"))

UseVectorQuery(env) ==
    Getenv(env, AZURE_SEARCH_USE_VECTOR_QUERY, "true") = Str("true")

\* whether evaluating an expression constructed the object o: its identity
\* is one the heap h does not hold yet
IsNew(o, h) == o.kind # "None" /\ o.id > Len(h)

----------------------------------------------------------------------------
Init ==
    /\ pc = "start"
    /\ \E T \in EnvironmentDomains : environ \in Settings(T)
    /\ dotenv_loaded = FALSE
    /\ llm_key = Unbound
    /\ search_key = Unbound
    /\ credential = Unbound
    /\ llm_credential = Unbound
    /\ search_credential = Unbound
    /\ app = Unbound
    /\ rtmt = Unbound
    /\ rag = Unbound
    /\ heap = <<>>
    /\ calls = <<>>
    /\ error = None
    /\ server = None

\* lines 17-19, development mode: load_dotenv()
LoadDotenv ==
    /\ pc = "start"
    /\ ShouldLoadDotenv(environ)
    /\ \E file \in DotenvFilesFor(environ) :
          environ' = MergeDotenv(environ, file)
    /\ dotenv_loaded' = TRUE
    /\ calls' = calls \o <<Call("environ.get", RUNNING_IN_PRODUCTION),
                             Call("load_dotenv", "")>>
    /\ pc' = "read_keys"
    /\ UNCHANGED <<llm_key, search_key, credential, llm_credential,
                   search_credential, app, rtmt, rag, heap, error, server>>

\* line 17, production: the .env file is not loaded
SkipDotenv ==
    /\ pc = "start"
    /\ ~ShouldLoadDotenv(environ)
    /\ calls' = Append(calls, Call("environ.get", RUNNING_IN_PRODUCTION))
    /\ pc' = "read_keys"
    /\ UNCHANGED <<environ, dotenv_loaded, llm_key, search_key, credential,
                   llm_credential, search_credential, app, rtmt, rag, heap,
                   error, server>>

\* lines 21-22
ReadKeys ==
    /\ pc = "read_keys"
    /\ llm_key' = EnvironGet(environ, AZURE_OPENAI_API_KEY)
    /\ search_key' = EnvironGet(environ, AZURE_SEARCH_API_KEY)
    /\ calls' = calls \o <<Call("environ.get", AZURE_OPENAI_API_KEY),
                             Call("environ.get", AZURE_SEARCH_API_KEY)>>
    /\ pc' = "resolve_fallback"
    /\ UNCHANGED <<environ, dotenv_loaded, credential, llm_credential,
                   search_credential, app, rtmt, rag, heap, error, server>>

\* lines 24-25, both keys given: credential stays None
NoFallback ==
    /\ pc = "resolve_fallback"
    /\ ~NeedsFallback(llm_key, search_key)
    /\ credential' = None
    /\ pc' = "assign_credentials"
    /\ UNCHANGED <<environ, dotenv_loaded, llm_key, search_key,
                   llm_credential, search_credential, app, rtmt, rag, heap,
                   calls, error, server>>

\* lines 24-31, a key is missing: the identity credential is constructed
ConstructFallback ==
    /\ pc = "resolve_fallback"
    /\ NeedsFallback(llm_key, search_key)
    /\ LET c == FallbackCredential(EnvironGet(environ, AZURE_TENANT_ID),
                                   Len(heap) + 1)
       IN  /\ credential' = c
           /\ heap' = Append(heap, c)
           /\ calls' = calls \o <<Call("environ.get", AZURE_TENANT_ID),
                                   Call(c.kind, "")>>
    /\ pc' = "assign_credentials"
    /\ UNCHANGED <<environ, dotenv_loaded, llm_key, search_key,
                   llm_credential, search_credential, app, rtmt, rag, error,
                   server>>

\* lines 32-33
AssignCredentials ==
    /\ pc = "assign_credentials"
    /\ LET l == ServiceCredential(llm_key, credential, Len(heap) + 1)
           h1 == IF IsNew(l, heap) THEN Append(heap, l) ELSE heap
           s == ServiceCredential(search_key, credential, Len(h1) + 1)
           h2 == IF IsNew(s, h1) THEN Append(h1, s) ELSE h1
       IN  /\ llm_credential' = l
           /\ search_credential' = s
           /\ heap' = h2
           /\ calls' = calls \o [i \in 1..(Len(h2) - Len(heap)) |->
                                    Call(h2[Len(heap) + i].kind, "")]
    /\ pc' = "new_app"
    /\ UNCHANGED <<environ, dotenv_loaded, llm_key, search_key, credential,
                   app, rtmt, rag, error, server>>

\* line 35
NewApplication ==
    /\ pc = "new_app"
    /\ app' = [routes |-> <<>>]
    /\ calls' = Append(calls, Call("web.Application", ""))
    /\ pc' = "new_rtmt"
    /\ UNCHANGED <<environ, dotenv_loaded, llm_key, search_key, credential,
                   llm_credential, search_credential, rtmt, rag, heap, error,
                   server>>

\* lines 37-42, both required settings given
NewRTMiddleTier ==
    /\ pc = "new_rtmt"
    /\ LET e == EnvironItem(environ, AZURE_OPENAI_ENDPOINT)
           d == EnvironItem(environ, AZURE_OPENAI_REALTIME_DEPLOYMENT)
       IN  /\ e.ok /\ d.ok
           /\ rtmt' =
                [credentials |-> llm_credential,
                 endpoint |-> e.v,
                 deployment |-> d.v,
                 voice_choice |->
                    Or(EnvironGet(environ, AZURE_OPENAI_REALTIME_VOICE_CHOICE),
                       Str("alloy")),
                 system_message |-> None]
    /\ calls' = calls \o
          <<Call("environ[]", AZURE_OPENAI_ENDPOINT),
            Call("environ[]", AZURE_OPENAI_REALTIME_DEPLOYMENT),
            Call("environ.get", AZURE_OPENAI_REALTIME_VOICE_CHOICE),
            Call("RTMiddleTier", "")>>
    /\ pc' = "set_system_message"
    /\ UNCHANGED <<environ, dotenv_loaded, llm_key, search_key, credential,
                   llm_credential, search_credential, app, rag, heap, error,
                   server>>

\* line 39: os.environ["AZURE_OPENAI_ENDPOINT"] raises KeyError
MissingEndpoint ==
    /\ pc = "new_rtmt"
    /\ ~EnvironItem(environ, AZURE_OPENAI_ENDPOINT).ok
    /\ error' = [kind |-> "KeyError", key |-> AZURE_OPENAI_ENDPOINT]
    /\ calls' = Append(calls, Call("environ[]", AZURE_OPENAI_ENDPOINT))
    /\ pc' = "raised"
    /\ UNCHANGED <<environ, dotenv_loaded, llm_key, search_key, credential,
                   llm_credential, search_credential, app, rtmt, rag, heap,
                   server>>

\* line 40: os.environ["AZURE_OPENAI_REALTIME_DEPLOYMENT"] raises KeyError
MissingDeployment ==
    /\ pc = "new_rtmt"
    /\ EnvironItem(environ, AZURE_OPENAI_ENDPOINT).ok
    /\ ~EnvironItem(environ, AZURE_OPENAI_REALTIME_DEPLOYMENT).ok
    /\ error' = [kind |-> "KeyError",
                 key |-> AZURE_OPENAI_REALTIME_DEPLOYMENT]
    /\ calls' = calls \o
          <<Call("environ[]", AZURE_OPENAI_ENDPOINT),
            Call("environ[]", AZURE_OPENAI_REALTIME_DEPLOYMENT)>>
    /\ pc' = "raised"
    /\ UNCHANGED <<environ, dotenv_loaded, llm_key, search_key, credential,
                   llm_credential, search_credential, app, rtmt, rag, heap,
                   server>>

\* lines 43-85
SetSystemMessage ==
    /\ pc = "set_system_message"
    /\ rtmt' = [rtmt EXCEPT !.system_message = Str(SystemMessage)]
    /\ calls' = Append(calls, Call("rtmt.system_message", ""))
    /\ pc' = "attach_rag_tools"
    /\ UNCHANGED <<environ, dotenv_loaded, llm_key, search_key, credential,
                   llm_credential, search_credential, app, rag, heap, error,
                   server>>

\* lines 87-97
AttachRagTools ==
    /\ pc = "attach_rag_tools"
    /\ rag' =
         [rtmt |-> rtmt,
          credentials |-> search_credential,
          search_endpoint |-> EnvironGet(environ, AZURE_SEARCH_ENDPOINT),
          search_index |-> EnvironGet(environ, AZURE_SEARCH_INDEX),
          semantic_configuration |->
             Or(EnvironGet(environ, AZURE_SEARCH_SEMANTIC_CONFIGURATION), None),
          identifier_field |->
             Or(EnvironGet(environ, AZURE_SEARCH_IDENTIFIER_FIELD),
                Str("chunk_id")),
          content_field |->
             Or(EnvironGet(environ, AZURE_SEARCH_CONTENT_FIELD), Str("chunk")),
          embedding_field |->
             Or(EnvironGet(environ, AZURE_SEARCH_EMBEDDING_FIELD),
                Str("text_vector")),
          title_field |->
             Or(EnvironGet(environ, AZURE_SEARCH_TITLE_FIELD), Str("title")),
          use_vector_query |-> UseVectorQuery(environ)]
    /\ calls' = calls \o
          <<Call("environ.get", AZURE_SEARCH_ENDPOINT),
            Call("environ.get", AZURE_SEARCH_INDEX),
            Call("environ.get", AZURE_SEARCH_SEMANTIC_CONFIGURATION),
            Call("environ.get", AZURE_SEARCH_IDENTIFIER_FIELD),
            Call("environ.get", AZURE_SEARCH_CONTENT_FIELD),
            Call("environ.get", AZURE_SEARCH_EMBEDDING_FIELD),
            Call("environ.get", AZURE_SEARCH_TITLE_FIELD),
            Call("getenv", AZURE_SEARCH_USE_VECTOR_QUERY),
            Call("attach_rag_tools", "")>>
    /\ pc' = "attach_to_app"
    /\ UNCHANGED <<environ, dotenv_loaded, llm_key, search_key, credential,
                   llm_credential, search_credential, app, rtmt, heap, error,
                   server>>

\* line 99
AttachToApp ==
    /\ pc = "attach_to_app"
    /\ app' = [app EXCEPT !.routes =
                  Append(@, [path |-> "/realtime", handler |-> "rtmt"])]
    /\ calls' = Append(calls, Call("rtmt.attach_to_app", "/realtime"))
    /\ pc' = "add_routes"
    /\ UNCHANGED <<environ, dotenv_loaded, llm_key, search_key, credential,
                   llm_credential, search_credential, rtmt, rag, heap, error,
                   server>>

\* lines 101-102
AddRoutes ==
    /\ pc = "add_routes"
    /\ app' = [app EXCEPT !.routes =
                  Append(@, [path |-> "/", handler |-> "static/index.html"])]
    /\ calls' = Append(calls, Call("app.add_routes", "/"))
    /\ pc' = "add_static"
    /\ UNCHANGED <<environ, dotenv_loaded, llm_key, search_key, credential,
                   llm_credential, search_credential, rtmt, rag, heap, error,
                   server>>

\* line 103
AddStatic ==
    /\ pc = "add_static"
    /\ app' = [app EXCEPT !.routes =
                  Append(@, [path |-> "/", handler |-> "static"])]
    /\ calls' = Append(calls, Call("app.router.add_static", "/"))
    /\ pc' = "return"
    /\ UNCHANGED <<environ, dotenv_loaded, llm_key, search_key, credential,
                   llm_credential, search_credential, rtmt, rag, heap, error,
                   server>>

\* line 105
Return ==
    /\ pc = "return"
    /\ calls' = Append(calls, Call("return", ""))
    /\ pc' = "returned"
    /\ UNCHANGED <<environ, dotenv_loaded, llm_key, search_key, credential,
                   llm_credential, search_credential, app, rtmt, rag, heap,
                   error, server>>

\* lines 107-110: web.run_app serves the application create_app returned
RunApp ==
    /\ pc = "returned"
    /\ server' = [app |-> app, host |-> Host, port |-> Port]
    /\ pc' = "serving"
    /\ UNCHANGED <<environ, dotenv_loaded, llm_key, search_key, credential,
                   llm_credential, search_credential, app, rtmt, rag, heap,
                   calls, error>>

Next ==
    \/ LoadDotenv
    \/ SkipDotenv
    \/ ReadKeys
    \/ NoFallback
    \/ ConstructFallback
    \/ AssignCredentials
    \/ NewApplication
    \/ NewRTMiddleTier
    \/ MissingEndpoint
    \/ MissingDeployment
    \/ SetSystemMessage
    \/ AttachRagTools
    \/ AttachToApp
    \/ AddRoutes
    \/ AddStatic
    \/ Return
    \/ RunApp

Spec == Init /\ [][Next]_vars

----------------------------------------------------------------------------
(* Vocabulary of the properties. *)

\* the variable is set to a non-empty value
Present(k) == k \in DOMAIN environ /\ environ[k] # ""

\* create_app has read its configuration from the final os.environ
EnvRead == pc # "start"

\* lines 32-33 have run
Resolved ==
    pc \notin {"start", "read_keys", "resolve_fallback", "assign_credentials"}

IdentityKinds == {"AzureDeveloperCliCredential", "DefaultAzureCredential"}

CredentialKinds == IdentityKinds \cup {"AzureKeyCredential"}

Constructed(kinds) == {i \in 1..Len(heap) : heap[i].kind \in kinds}

\* positions of the calls to fn
Calls(fn) == {i \in 1..Len(calls) : calls[i].fn = fn}

\* every call to f comes before every call to g
Before(f, g) == \A i \in Calls(f), j \in Calls(g) : i < j

\* the kind of credential a service gets, from its own key and the tenant id
ExpectedKind(k) ==
    IF Present(k) THEN "AzureKeyCredential"
    ELSE IF Present(AZURE_TENANT_ID) THEN "AzureDeveloperCliCredential"
    ELSE "DefaultAzureCredential"

IsStaticKey(c, k) == c.kind = "AzureKeyCredential" /\ c.key = environ[k]

IsTenantScoped(c) ==
    /\ c.kind = "AzureDeveloperCliCredential"
    /\ c.tenant_id = environ[AZURE_TENANT_ID]
    /\ c.process_timeout = 60

IsAmbient(c) == c.kind = "DefaultAzureCredential"

----------------------------------------------------------------------------
\* C1: when both API keys are present (non-empty), the language-model
\* credential is a static key wrapping AZURE_OPENAI_API_KEY, the search
\* credential a static key wrapping AZURE_SEARCH_API_KEY, and no identity
\* credential is ever constructed, whatever AZURE_TENANT_ID is.
C1_BothKeysStatic ==
    (EnvRead /\ Present(AZURE_OPENAI_API_KEY) /\ Present(AZURE_SEARCH_API_KEY))
    => /\ Constructed(IdentityKinds) = {}
       /\ Calls("AzureDeveloperCliCredential") = {}
       /\ Calls("DefaultAzureCredential") = {}
       /\ Resolved =>
            /\ IsStaticKey(llm_credential, AZURE_OPENAI_API_KEY)
            /\ IsStaticKey(search_credential, AZURE_SEARCH_API_KEY)

C1_Witness ==
    /\ pc = "serving"
    /\ Present(AZURE_OPENAI_API_KEY) /\ Present(AZURE_SEARCH_API_KEY)
    /\ Present(AZURE_TENANT_ID)
    /\ llm_credential.kind = "AzureKeyCredential"
    /\ search_credential.kind = "AzureKeyCredential"
    /\ Len(heap) = 2

\* C2: when exactly one API key is present, the service whose key is present
\* gets a static key wrapping it and the other service the fallback identity
\* credential (tenant-scoped if AZURE_TENANT_ID is present, ambient
\* otherwise); in every environment the kind a service gets is decided by
\* its own key and the tenant id alone, never by the other service's key.
C2_OneKeyStaticOtherFallback ==
    Resolved =>
      /\ llm_credential.kind = ExpectedKind(AZURE_OPENAI_API_KEY)
      /\ search_credential.kind = ExpectedKind(AZURE_SEARCH_API_KEY)
      /\ (Present(AZURE_OPENAI_API_KEY) /\ ~Present(AZURE_SEARCH_API_KEY))
         => /\ IsStaticKey(llm_credential, AZURE_OPENAI_API_KEY)
            /\ search_credential = credential
            /\ IF Present(AZURE_TENANT_ID)
               THEN IsTenantScoped(search_credential)
               ELSE IsAmbient(search_credential)
      /\ (~Present(AZURE_OPENAI_API_KEY) /\ Present(AZURE_SEARCH_API_KEY))
         => /\ IsStaticKey(search_credential, AZURE_SEARCH_API_KEY)
            /\ llm_credential = credential
            /\ IF Present(AZURE_TENANT_ID)
               THEN IsTenantScoped(llm_credential)
               ELSE IsAmbient(llm_credential)

C2_Witness ==
    /\ pc = "serving"
    /\ Present(AZURE_OPENAI_API_KEY) /\ ~Present(AZURE_SEARCH_API_KEY)
    /\ llm_credential.kind = "AzureKeyCredential"
    /\ search_credential.kind = "AzureDeveloperCliCredential"

\* C3: when neither API key is present and AZURE_TENANT_ID is, both
\* credentials are the tenant-scoped interactive credential built with that
\* tenant id and a wait of 60, and no ambient credential is constructed.
C3_NoKeysTenantScoped ==
    (EnvRead /\ ~Present(AZURE_OPENAI_API_KEY)
       /\ ~Present(AZURE_SEARCH_API_KEY) /\ Present(AZURE_TENANT_ID))
    => /\ Constructed({"DefaultAzureCredential"}) = {}
       /\ Calls("DefaultAzureCredential") = {}
       /\ Resolved =>
            /\ IsTenantScoped(llm_credential)
            /\ IsTenantScoped(search_credential)

C3_Witness ==
    /\ pc = "serving"
    /\ ~Present(AZURE_OPENAI_API_KEY) /\ ~Present(AZURE_SEARCH_API_KEY)
    /\ Present(AZURE_TENANT_ID)
    /\ rtmt.credentials.kind = "AzureDeveloperCliCredential"
    /\ rag.credentials.kind = "AzureDeveloperCliCredential"

\* C4: when neither API key is present and AZURE_TENANT_ID is not, both
\* credentials are the ambient-environment credential, and no tenant-scoped
\* credential is constructed.
C4_NoKeysAmbient ==
    (EnvRead /\ ~Present(AZURE_OPENAI_API_KEY)
       /\ ~Present(AZURE_SEARCH_API_KEY) /\ ~Present(AZURE_TENANT_ID))
    => /\ Constructed({"AzureDeveloperCliCredential"}) = {}
       /\ Calls("AzureDeveloperCliCredential") = {}
       /\ Resolved =>
            /\ IsAmbient(llm_credential)
            /\ IsAmbient(search_credential)

C4_Witness ==
    /\ pc = "serving"
    /\ ~Present(AZURE_OPENAI_API_KEY) /\ ~Present(AZURE_SEARCH_API_KEY)
    /\ AZURE_TENANT_ID \notin DOMAIN environ
    /\ rtmt.credentials.kind = "DefaultAzureCredential"
    /\ rag.credentials.kind = "DefaultAzureCredential"

\* the five settings with a documented default, the value create_app passed
\* to the collaborator for each, and the default
DefaultedVars ==
    {AZURE_SEARCH_IDENTIFIER_FIELD, AZURE_SEARCH_CONTENT_FIELD,
     AZURE_SEARCH_EMBEDDING_FIELD, AZURE_SEARCH_TITLE_FIELD,
     AZURE_OPENAI_REALTIME_VOICE_CHOICE}

Passed(k) ==
    CASE k = AZURE_SEARCH_IDENTIFIER_FIELD -> rag.identifier_field
      [] k = AZURE_SEARCH_CONTENT_FIELD -> rag.content_field
      [] k = AZURE_SEARCH_EMBEDDING_FIELD -> rag.embedding_field
      [] k = AZURE_SEARCH_TITLE_FIELD -> rag.title_field
      [] k = AZURE_OPENAI_REALTIME_VOICE_CHOICE -> rtmt.voice_choice

Documented(k) ==
    CASE k = AZURE_SEARCH_IDENTIFIER_FIELD -> "chunk_id"
      [] k = AZURE_SEARCH_CONTENT_FIELD -> "chunk"
      [] k = AZURE_SEARCH_EMBEDDING_FIELD -> "text_vector"
      [] k = AZURE_SEARCH_TITLE_FIELD -> "title"
      [] k = AZURE_OPENAI_REALTIME_VOICE_CHOICE -> "alloy"

\* attach_rag_tools has been called (the session manager was built before)
Attached == rag # Unbound

\* C5 as stated: use_vector_query is true when AZURE_SEARCH_USE_VECTOR_QUERY
\* is "true", and false for every other string and when it is absent.
C5_AsStated ==
    Attached =>
      (rag.use_vector_query <=>
         (AZURE_SEARCH_USE_VECTOR_QUERY \in DOMAIN environ
          /\ environ[AZURE_SEARCH_USE_VECTOR_QUERY] = "true"))

\* C5 amended: use_vector_query is true when AZURE_SEARCH_USE_VECTOR_QUERY
\* is "true" or absent, and false for every other string (the empty string
\* included).
C5_VectorQueryDefaultTrue ==
    Attached =>
      (rag.use_vector_query <=>
         (AZURE_SEARCH_USE_VECTOR_QUERY \notin DOMAIN environ
          \/ environ[AZURE_SEARCH_USE_VECTOR_QUERY] = "true"))

C5_Witness ==
    /\ Attached
    /\ AZURE_SEARCH_USE_VECTOR_QUERY \notin DOMAIN environ
    /\ rag.use_vector_query = TRUE

\* C6 as stated: for each of the five defaulted settings, the documented
\* default is passed when the variable is unset, and the exact value when it
\* is set to any string.
C6_AsStated ==
    Attached =>
      \A k \in DefaultedVars :
         Passed(k) = IF k \in DOMAIN environ THEN Str(environ[k])
                     ELSE Str(Documented(k))

\* C6 amended: for each of the five defaulted settings, the documented
\* default is passed when the variable is unset or set to the empty string,
\* and the exact value when it is set to a non-empty string.
C6_DefaultsUnlessNonEmpty ==
    Attached =>
      \A k \in DefaultedVars :
         Passed(k) = IF Present(k) THEN Str(environ[k])
                     ELSE Str(Documented(k))

C6_Witness ==
    /\ Attached
    /\ AZURE_SEARCH_IDENTIFIER_FIELD \in DOMAIN environ
    /\ environ[AZURE_SEARCH_IDENTIFIER_FIELD] = ""
    /\ rag.identifier_field = Str("chunk_id")
    /\ rtmt.voice_choice = Str("alloy")

\* C7: when AZURE_OPENAI_ENDPOINT or AZURE_OPENAI_REALTIME_DEPLOYMENT is
\* missing, create_app ends in a KeyError and nothing that accepts traffic
\* is set up: no session manager, no attach_rag_tools call, no handler at
\* "/realtime", no root route, no static mount, no application returned to
\* run_app.
C7_MissingRequiredFailsFast ==
    (EnvRead /\ (AZURE_OPENAI_ENDPOINT \notin DOMAIN environ
                 \/ AZURE_OPENAI_REALTIME_DEPLOYMENT \notin DOMAIN environ))
    => /\ pc \in {"read_keys", "resolve_fallback", "assign_credentials",
                  "new_app", "new_rtmt", "raised"}
       /\ pc = "raised" => error.kind = "KeyError"
       /\ rtmt = Unbound
       /\ rag = Unbound
       /\ Calls("RTMiddleTier") = {}
       /\ Calls("attach_rag_tools") = {}
       /\ Calls("rtmt.attach_to_app") = {}
       /\ Calls("app.add_routes") = {}
       /\ Calls("app.router.add_static") = {}
       /\ Calls("return") = {}
       /\ app # Unbound => app.routes = <<>>
       /\ server = None

C7_Witness ==
    /\ pc = "raised"
    /\ AZURE_OPENAI_ENDPOINT \in DOMAIN environ
    /\ AZURE_OPENAI_REALTIME_DEPLOYMENT \notin DOMAIN environ
    /\ error = [kind |-> "KeyError", key |-> AZURE_OPENAI_REALTIME_DEPLOYMENT]
    /\ app = [routes |-> <<>>]

\* state part of C8: at most one fallback identity credential is ever
\* constructed, one is constructed exactly when at least one API key is
\* absent, and when both are absent the two services hold the same instance
C8_State ==
    /\ Cardinality(Constructed(IdentityKinds)) <= 1
    /\ Cardinality(Calls("AzureDeveloperCliCredential")
                   \cup Calls("DefaultAzureCredential")) <= 1
    /\ Resolved =>
         /\ (Constructed(IdentityKinds) # {})
            <=> (~Present(AZURE_OPENAI_API_KEY)
                 \/ ~Present(AZURE_SEARCH_API_KEY))
         /\ (~Present(AZURE_OPENAI_API_KEY) /\ ~Present(AZURE_SEARCH_API_KEY))
            => /\ llm_credential = search_credential
               /\ llm_credential.kind \in IdentityKinds
               /\ llm_credential = heap[llm_credential.id]

\* step part of C8: once assigned, a credential is not assigned again
C8_Step ==
    /\ llm_credential # Unbound => llm_credential' = llm_credential
    /\ search_credential # Unbound => search_credential' = search_credential
    /\ credential # Unbound => credential' = credential

\* C8: in every state at most one fallback identity credential exists, it
\* exists exactly when a key is absent and is shared when both are, and no
\* step reassigns a credential that has been assigned.
C8_SingleSharedFallback == []C8_State /\ [][C8_Step]_vars

C8_Witness ==
    /\ pc = "serving"
    /\ ~Present(AZURE_OPENAI_API_KEY) /\ ~Present(AZURE_SEARCH_API_KEY)
    /\ Len(heap) = 1
    /\ rtmt.credentials = heap[1]
    /\ rag.credentials = heap[1]

\* what C9 asks of the credential c of the service whose key is k
C9_Service(k, c) ==
    /\ (k \in DOMAIN environ /\ environ[k] = "")
       => /\ c.kind \in IdentityKinds
          /\ c.kind = ExpectedKind(k)
    /\ (c.kind \in IdentityKinds /\ AZURE_TENANT_ID \in DOMAIN environ
          /\ environ[AZURE_TENANT_ID] = "")
       => c.kind = "DefaultAzureCredential"
    /\ c.kind \in CredentialKinds
    /\ c.kind = "AzureKeyCredential" => c.key # ""

\* C9: presence is truthiness: an API key set to the empty string gets the
\* fallback identity credential like an absent one, an empty AZURE_TENANT_ID
\* selects the ambient credential; so the credential handed to RTMiddleTier
\* and to attach_rag_tools is never None and never a static key wrapping "".
C9_EmptyIsAbsent ==
    /\ Resolved =>
         /\ C9_Service(AZURE_OPENAI_API_KEY, llm_credential)
         /\ C9_Service(AZURE_SEARCH_API_KEY, search_credential)
    /\ rtmt # Unbound =>
         /\ rtmt.credentials = llm_credential
         /\ C9_Service(AZURE_OPENAI_API_KEY, rtmt.credentials)
    /\ Attached =>
         /\ rag.credentials = search_credential
         /\ C9_Service(AZURE_SEARCH_API_KEY, rag.credentials)

C9_Witness ==
    /\ pc = "serving"
    /\ AZURE_OPENAI_API_KEY \in DOMAIN environ
    /\ environ[AZURE_OPENAI_API_KEY] = ""
    /\ Present(AZURE_SEARCH_API_KEY)
    /\ AZURE_TENANT_ID \in DOMAIN environ
    /\ environ[AZURE_TENANT_ID] = ""
    /\ rtmt.credentials.kind = "DefaultAzureCredential"
    /\ rag.credentials.kind = "AzureKeyCredential"

\* reads of a setting other than RUNNING_IN_PRODUCTION
ConfigReads ==
    {i \in 1..Len(calls) :
        /\ calls[i].fn \in {"environ.get", "environ[]", "getenv"}
        /\ calls[i].arg # RUNNING_IN_PRODUCTION}

StartupOrder ==
    <<"RTMiddleTier", "rtmt.system_message", "attach_rag_tools",
      "rtmt.attach_to_app", "app.add_routes", "app.router.add_static",
      "return">>

\* the calls made so far that are steps of StartupOrder, in order
StartupCalls ==
    LET steps == {StartupOrder[m] : m \in 1..Len(StartupOrder)}
        made == SelectSeq(calls, LAMBDA c : c.fn \in steps)
    IN  [i \in 1..Len(made) |-> made[i].fn]

\* state part of C10: the order of the calls made so far
C10_State ==
    /\ \A i \in Calls("load_dotenv"), j \in ConfigReads : i < j
    /\ dotenv_loaded <=> Calls("load_dotenv") # {}
    /\ \A i \in 1..Len(calls), j \in Calls("RTMiddleTier") :
          calls[i].fn \in CredentialKinds => i < j
    /\ Calls("RTMiddleTier") # {} => Resolved
    /\ Len(StartupCalls) <= Len(StartupOrder)
    /\ StartupCalls = SubSeq(StartupOrder, 1, Len(StartupCalls))
    /\ pc \in {"returned", "serving"} =>
         /\ StartupCalls = StartupOrder
         /\ llm_credential.kind \in CredentialKinds
         /\ search_credential.kind \in CredentialKinds
         /\ rtmt.credentials = llm_credential
         /\ rtmt.system_message = Str(SystemMessage)
         /\ rag.rtmt = rtmt
         /\ app.routes = <<[path |-> "/realtime", handler |-> "rtmt"],
                           [path |-> "/", handler |-> "static/index.html"],
                           [path |-> "/", handler |-> "static"]>>
    /\ pc = "serving" => server.app = app

\* step part of C10: the first step loads .env exactly in development mode
C10_Step ==
    pc = "start" =>
       (dotenv_loaded' <=>
          (RUNNING_IN_PRODUCTION \notin DOMAIN environ
           \/ environ[RUNNING_IN_PRODUCTION] = ""))

\* C10: the startup steps run in a fixed order: .env is loaded exactly when
\* RUNNING_IN_PRODUCTION is unset or empty, before any other setting is
\* read; then both credentials are resolved; then the session manager is
\* built and its prompt assigned; then attach_rag_tools is called with that
\* session manager; then it is bound at "/realtime"; then the root route and
\* the static mount are registered; only then is the application returned.
C10_FixedStartupOrder == []C10_State /\ [][C10_Step]_vars

C10_Witness ==
    /\ pc = "serving"
    /\ dotenv_loaded
    /\ RUNNING_IN_PRODUCTION \in DOMAIN environ
    /\ environ[RUNNING_IN_PRODUCTION] = ""
    /\ Present(AZURE_OPENAI_API_KEY)
    /\ Len(server.app.routes) = 3

====
